---- MODULE Spec2Model ----
(***************************************************************************)
(* A state-machine model of src/model.py (TimingPredict): the message      *)
(* passing of NetConv, the levelised propagation of SignalProp (with the   *)
(* LUT lookup of edge_msg_cell), and the layer stack of DeepGCNII.         *)
(*                                                                         *)
(* Abstractions.  A feature vector is a sequence of integers; torch.cat    *)
(* along dim 1 is \o.  A tensor of any shape is the flat row-major         *)
(* sequence of its elements, so reshape keeps the data and the index       *)
(* arithmetic is explicit where a tensor is used.  An MLP with learned     *)
(* weights is a fixed deterministic map chosen by a seed (arithmetic       *)
(* modulo 7 keeps the values bounded); the sigmoid gate is a positive      *)
(* factor.  The graph library's frames are functions column -> row ->      *)
(* value; a column written on a subset of rows is created zero-filled.     *)
(***************************************************************************)
EXTENDS Integers, Sequences, FiniteSets, TLC

VARIABLES
    comp,         \* which forward call is running
    pc,           \* position in that call
    groundtruth,  \* the groundtruth argument of SignalProp.forward
    netOut,       \* edges of type net_out  (drive -> sink), pairs <<u, v>>
    netIn,        \* edges of type net_in   (sink -> drive)
    cellOut,      \* edges of type cell_out (cell input -> cell output)
    ts,           \* the schedule: topo, pi_nodes, input_nodes, ...
    nfArg,        \* the nf argument of the call, per node
    pre,          \* the graph's feature store before the call, per run
    store,        \* the graph's feature store now, per run
    saved,        \* the store kept by local_scope while the call is inside it
    lvl,          \* loop index i of SignalProp.forward / layer index of DeepGCNII
    trace,        \* the stages (or layers) run so far, in order
    reads,        \* run 1: the source predictions read by the stages
    lastw,        \* run 1: per node, the stage that last wrote new_nf (-1: none)
    err,          \* the exception raised, "" when none
    ret,          \* the returned tensors, per run
    wAtt,         \* the weights of MLP_lut_attention
    nLayers,      \* n_layers of DeepGCNII
    xrun,         \* the running feature x of DeepGCNII.forward, per node
    lutQ, lutA, lutR   \* the tensors q, a and r of edge_msg_cell

\* the arguments of the call and the graph it is made on: fixed by Init
inputs == <<comp, groundtruth, netOut, netIn, cellOut, ts, nfArg, pre, wAtt, nLayers>>

lutvars == <<lutQ, lutA, lutR>>

vars == <<inputs, pc, store, saved, lvl, trace, reads, lastw, err, ret, xrun, lutvars>>

(***************************************************************************)
(* Bounds of the model.                                                    *)
(***************************************************************************)
NumNodes == 4
in_cell_num_luts == 2
in_cell_lut_sz == 2
MaxLayers == 4

Nodes == 1..NumNodes

(***************************************************************************)
(* Program constants.                                                      *)
(***************************************************************************)
lut_dup == 4

(***************************************************************************)
(* Tensors.                                                                *)
(***************************************************************************)
RECURSIVE SumSeq(_)
SumSeq(s) == IF s = <<>> THEN 0 ELSE s[1] + SumSeq(Tail(s))

RECURSIVE Flatten(_)
Flatten(ss) == IF ss = <<>> THEN <<>> ELSE ss[1] \o Flatten(Tail(ss))

Zeros(w) == [k \in 1..w |-> 0]

\* row r (0-based) of a flat tensor viewed with rows of width w
Row(flat, w, r) == SubSeq(flat, r * w + 1, (r + 1) * w)

Max2(a, b) == IF a >= b THEN a ELSE b

VecAdd(a, b) == [k \in 1..Len(a) |-> a[k] + b[k]]
VecMax(a, b) == [k \in 1..Len(a) |-> Max2(a[k], b[k])]
\* the edges of a set in edge-id order
RECURSIVE EdgeSeq(_)
EdgeSeq(E) ==
    IF E = {} THEN <<>>
    ELSE LET e == CHOOSE x \in E : \A y \in E :
                      x[1] * (NumNodes + 1) + x[2] <= y[1] * (NumNodes + 1) + y[2]
         IN  <<e>> \o EdgeSeq(E \ {e})

\* fn.sum / fn.max of the messages msg[e] over the edges of es into node v;
\* a node that receives no message gets the zero vector
RECURSIVE ReduceSum(_, _, _)
ReduceSum(es, msg, w) ==
    IF es = <<>> THEN Zeros(w) ELSE VecAdd(msg[es[1]], ReduceSum(Tail(es), msg, w))

RECURSIVE ReduceMaxNE(_, _)
ReduceMaxNE(es, msg) ==
    IF Len(es) = 1 THEN msg[es[1]] ELSE VecMax(msg[es[1]], ReduceMaxNE(Tail(es), msg))

ReduceMax(es, msg, w) == IF es = <<>> THEN Zeros(w) ELSE ReduceMaxNE(es, msg)

InEdges(E, nodes) == {e \in E : e[2] \in nodes}

(***************************************************************************)
(* MLP.forward: a fixed map from the input vector to a vector of width w.  *)
(***************************************************************************)
MLP(seed, x, w) ==
    [k \in 1..w |-> (seed + 3 * k + SumSeq([i \in 1..Len(x) |-> (i + k) * x[i]])) % 7]

Sigmoid(k) == 1 + (k % 2)

(***************************************************************************)
(* Frames: column -> row -> value.                                         *)
(***************************************************************************)
SetCol(f, k, col) == [x \in (DOMAIN f) \cup {k} |-> IF x = k THEN col ELSE f[x]]

\* write val[x] on the rows of `rows`; a new column starts zero-filled
SetRows(f, k, all, rows, val, w) ==
    SetCol(f, k, [x \in all |-> IF x \in rows THEN val[x]
                                ELSE IF k \in DOMAIN f THEN f[k][x] ELSE Zeros(w)])

(***************************************************************************)
(* SignalProp: the edge and node functions.                                *)
(***************************************************************************)
MLP_netprop(x) == MLP(1, x, 1)
MLP_lut_query(x) == MLP(2, x, in_cell_num_luts * lut_dup * 2)
MLP_cellarc_msg(x) == MLP(4, x, 4)
MLP_cellreduce(x) == MLP(5, x, 1)

OneHot(i, w) == [k \in 1..w |-> IF k = i + 1 THEN 1 ELSE 0]

\* MLP_lut_attention under the weights wAtt: a dense network, or one whose last
\* layer has zero weights and a bias that is one-hot on each axis
MLP_lut_attention(x) ==
    IF wAtt.kind = "bias"
    THEN OneHot(wAtt.i, in_cell_lut_sz) \o OneHot(wAtt.j, in_cell_lut_sz)
    ELSE MLP(3 + wAtt.i, x, in_cell_lut_sz * 2)

\* the field the source prediction is taken from
LastNfField_ReadsNewNf(gt) == "new_nf"
LastNfField(gt) == IF gt THEN "n_atslew" ELSE "new_nf"

LastNf(ndf, u, gt) == ndf[LastNfField(gt)][u]

edge_msg_net(ndf, e, gt) ==
    MLP_netprop(LastNf(ndf, e[1], gt) \o ndf["nf"][e[1]] \o ndf["nf"][e[2]])

axis_len == in_cell_num_luts * (1 + 2 * in_cell_lut_sz)
tables_len == in_cell_num_luts * in_cell_lut_sz * in_cell_lut_sz

\* q = MLP_lut_query(cat(...)).reshape(-1, 2): rows of width 2
LutQuery(es, ndf, gt) ==
    Flatten([k \in 1..Len(es) |->
        MLP_lut_query(LastNf(ndf, es[k][1], gt) \o ndf["nf"][es[k][1]]
                                                \o ndf["nf"][es[k][2]])])

\* axis = ef[:, :axis_len].reshape(-1, W).repeat(1, lut_dup).reshape(-1, W)
LutAxis(es, ef) ==
    LET W == 1 + 2 * in_cell_lut_sz
        axis0 == Flatten([k \in 1..Len(es) |-> SubSeq(ef[es[k]], 1, axis_len)])
        rows == Len(axis0) \div W
    IN  Flatten([b \in 1..rows |->
            Flatten([d \in 1..lut_dup |-> Row(axis0, W, b - 1)])])

\* a = MLP_lut_attention(cat([q, axis], dim=1)): rows of width 2 * in_cell_lut_sz
LutAttention(q, axis) ==
    LET W == 1 + 2 * in_cell_lut_sz
        rows == Len(q) \div 2
    IN  Flatten([r \in 1..rows |->
            MLP_lut_attention(Row(q, 2, r - 1) \o Row(axis, W, r - 1))])

\* a.reshape(-1, 2, S); ax, ay = split; matmul(ax as S x 1, ay as 1 x S)
LutOuter_Transposed(a) ==
    LET S == in_cell_lut_sz
        rows == Len(a) \div (2 * S)
    IN  Flatten([r \in 1..rows |->
            [m \in 1..(S * S) |-> Row(a, S, 2 * (r - 1))[((m - 1) % S) + 1]
                                  * Row(a, S, 2 * (r - 1) + 1)[((m - 1) \div S) + 1]]])
LutOuter(a) ==
    LET S == in_cell_lut_sz
        rows == Len(a) \div (2 * S)
    IN  Flatten([r \in 1..rows |->
            [m \in 1..(S * S) |-> Row(a, S, 2 * (r - 1))[((m - 1) \div S) + 1]
                                  * Row(a, S, 2 * (r - 1) + 1)[((m - 1) % S) + 1]]])

\* the batch sizes of matmul(tables.reshape(-1, 1, 1, S^2), a.reshape(-1, 4, S^2, 1))
LutB1(nE) == nE * in_cell_num_luts
LutB2(nE) == (nE * in_cell_num_luts * lut_dup) \div 4
LutB(nE) == IF LutB1(nE) = 1 THEN LutB2(nE) ELSE LutB1(nE)

\* a.reshape(-1, 4, S^2, 1), the broadcast of the batch dimensions and
\* r.reshape(len(edges), num_luts * lut_dup) all succeed; an empty batch passes
\* every reshape (q.reshape(-1, 2) of no element has no row)
LutShapeOK(nE) ==
    /\ (nE * in_cell_num_luts * lut_dup) % 4 = 0
    /\ \/ LutB1(nE) = LutB2(nE)
       \/ LutB1(nE) = 1
       \/ LutB2(nE) = 1
    /\ LutB(nE) * 4 = nE * in_cell_num_luts * lut_dup

\* tables = ef[:, axis_len : axis_len + tables_len]; r = matmul(...), flat
LutLookup(es, ef, a) ==
    LET S2 == in_cell_lut_sz * in_cell_lut_sz
        nE == Len(es)
        tables == Flatten([k \in 1..nE |->
                      SubSeq(ef[es[k]], axis_len + 1, axis_len + tables_len)])
    IN  Flatten([b \in 1..LutB(nE) |->
          [c \in 1..4 |->
            LET tb == Row(tables, S2, IF LutB1(nE) = 1 THEN 0 ELSE b - 1)
                ar == Row(a, S2, (IF LutB2(nE) = 1 THEN 0 ELSE b - 1) * 4 + (c - 1))
            IN  SumSeq([m \in 1..S2 |-> tb[m] * ar[m]])]])

\* the message of edge number k of the batch, from r.reshape(len(edges), -1)
CellArcMsg(es, ndf, gt, r, k) ==
    LET e == es[k]
        x == MLP_cellarc_msg(LastNf(ndf, e[1], gt) \o ndf["nf"][e[1]] \o ndf["nf"][e[2]]
                 \o Row(r, in_cell_num_luts * lut_dup, k - 1))
        g == Sigmoid(x[1])
    IN  [efc1 |-> <<x[2] * g>>, efc2 |-> <<x[3] * g>>, efce |-> <<x[4]>>]

edge_msg_cell(es, ndf, ef, gt) ==
    LET q == LutQuery(es, ndf, gt)
        a == LutOuter(LutAttention(q, LutAxis(es, ef)))
        r == LutLookup(es, ef, a)
    IN  [e \in {es[k] : k \in 1..Len(es)} |->
            CellArcMsg(es, ndf, gt, r, CHOOSE k \in 1..Len(es) : es[k] = e)]

SignalProp_node_reduce_o(ndf, v) ==
    MLP_cellreduce(ndf["nf"][v] \o ndf["nfc1"][v] \o ndf["nfc2"][v])

\* prop_net: g.pull(nodes, edge_msg_net, fn.sum('efn', 'new_nf'), etype='net_out')
prop_net(st, nodes, gt) ==
    LET msg == [e \in InEdges(netOut, nodes) |-> edge_msg_net(st.n, e, gt)]
    IN  [st EXCEPT !.n = SetRows(st.n, "new_nf", Nodes, nodes,
             [v \in nodes |-> ReduceSum(EdgeSeq(InEdges(netOut, {v})), msg, 1)], 1)]

\* the reshapes of edge_msg_cell fit the batch of in-edges of `nodes`
prop_cell_ok(nodes) == LutShapeOK(Cardinality(InEdges(cellOut, nodes)))

\* es = g.in_edges(nodes); g.apply_edges(edge_msg_cell, es): on an empty batch
\* the three columns are still created, zero-filled
prop_cell_apply_edges(st, nodes, gt) ==
    LET E == InEdges(cellOut, nodes)
        m == edge_msg_cell(EdgeSeq(E), st.n, st.co["ef"], gt)
        co1 == SetRows(st.co, "efc1", cellOut, E, [e \in E |-> m[e].efc1], 1)
        co2 == SetRows(co1, "efc2", cellOut, E, [e \in E |-> m[e].efc2], 1)
    IN  [st EXCEPT !.co = SetRows(co2, "efce", cellOut, E, [e \in E |-> m[e].efce], 1)]

\* send_and_recv over no edge computes nothing and creates no column, and
\* node_reduce_o then finds nfc1/nfc2 only if an earlier stage left them
prop_cell_has_nfc(st, nodes) ==
    \/ InEdges(cellOut, nodes) # {}
    \/ {"nfc1", "nfc2"} \subseteq DOMAIN st.n

\* the two send_and_recv, which write the destinations of es only, and
\* apply_nodes(node_reduce_o, nodes)
prop_cell_reduce(st, nodes) ==
    LET E == InEdges(cellOut, nodes)
        dst == {e[2] : e \in E}
        m1 == [e \in E |-> st.co["efc1"][e]]
        m2 == [e \in E |-> st.co["efc2"][e]]
        n1 == IF E = {} THEN st.n
              ELSE SetRows(st.n, "nfc1", Nodes, dst,
                  [v \in dst |-> ReduceSum(EdgeSeq(InEdges(E, {v})), m1, 1)], 1)
        n2 == IF E = {} THEN n1
              ELSE SetRows(n1, "nfc2", Nodes, dst,
                  [v \in dst |-> ReduceMax(EdgeSeq(InEdges(E, {v})), m2, 1)], 1)
    IN  [st EXCEPT !.n = SetRows(n2, "new_nf", Nodes, nodes,
                  [v \in nodes |-> SignalProp_node_reduce_o(n2, v)], 1)]

prop_cell(st, nodes, gt) == prop_cell_reduce(prop_cell_apply_edges(st, nodes, gt), nodes)

\* node_skip_level_o on the nodes of `nodes`
node_skip_level_o(ndf, nodes) ==
    SetRows(ndf, "new_nf", Nodes, nodes, [v \in nodes |-> ndf["n_atslew"][v]], 1)

\* with g.local_scope(): the frames are put back when the block runs to its
\* end; an exception that leaves the block skips that (see Raise)
LocalScopeExit(before, now) == before

(***************************************************************************)
(* The graphs, schedules and feature stores the calls are made on.         *)
(* Nodes are numbered in schedule order, so a schedule is a cut of 1..N    *)
(* into consecutive non-empty levels.  The in-edges of node v are given by *)
(* kind[v]: 0 none, 1 a net_out edge from v-1, 2 cell_out edges from v-1   *)
(* and v-2, 3 a net_out edge from v+1 (an edge against the schedule), 4 a  *)
(* net_out edge from v-2.                                                  *)
(***************************************************************************)
KindNetOut(kind) ==
    {e \in Nodes \X Nodes : \/ kind[e[2]] = 1 /\ e[1] = e[2] - 1
                            \/ kind[e[2]] = 3 /\ e[1] = e[2] + 1
                            \/ kind[e[2]] = 4 /\ e[1] = e[2] - 2}

KindCellOut(kind) ==
    {e \in Nodes \X Nodes : kind[e[2]] = 2 /\ e[1] \in {e[2] - 1, e[2] - 2}}

Reverse(E) == {<<e[2], e[1]>> : e \in E}

LevelOf(cuts, v) == Cardinality({c \in cuts : c < v})

Topo(cuts) ==
    [k \in 1..(Cardinality(cuts) + 1) |-> {v \in Nodes : LevelOf(cuts, v) = k - 1}]

\* the schedule of a cut: level 0 holds the primary inputs, odd levels the net
\* sinks (cell inputs), even levels the cell outputs
Schedule(cuts) ==
    [topo |-> Topo(cuts),
     pi_nodes |-> {v \in Nodes : LevelOf(cuts, v) = 0},
     input_nodes |-> {v \in Nodes : LevelOf(cuts, v) % 2 = 1},
     output_nodes |-> {v \in Nodes : LevelOf(cuts, v) % 2 = 0},
     output_nodes_nonpi |-> {v \in Nodes : LevelOf(cuts, v) % 2 = 0
                                           /\ LevelOf(cuts, v) > 0}]

\* the ef of a cell_out edge: the axis block, then the table block
CellEf(seed, e) ==
    [k \in 1..(axis_len + tables_len) |-> (seed + 2 * e[1] + 3 * e[2] + k * k) % 5]

NetEf(e) == <<(e[1] + 2 * e[2]) % 3>>

\* the store of the graph before a call; run r carries its own new_nf
PreStore(r, seed, no, ni, co) ==
    [n |-> [c \in {"nf", "n_atslew", "new_nf"} |->
               [v \in Nodes |-> IF c = "nf" THEN <<(v + seed) % 7>>
                                ELSE IF c = "n_atslew" THEN <<v + 2 + seed>>
                                ELSE <<3 * r + v>>]],
     co |-> [c \in {"ef"} |-> [e \in co |-> CellEf(seed, e)]],
     no |-> [c \in {"ef"} |-> [e \in no |-> NetEf(e)]],
     ni |-> [c \in {"ef"} |-> [e \in ni |-> NetEf(e)]]]

Runs == DOMAIN store

\* topo[i] of the code (0-based)
Level(i) == ts.topo[i + 1]

NoLut == /\ lutQ = <<>>
         /\ lutA = <<>>
         /\ lutR = <<>>

(***************************************************************************)
(* SignalProp.forward                                                      *)
(***************************************************************************)
InitProp ==
    /\ comp = "SignalProp"
    /\ pc = "sp_call"
    /\ groundtruth \in BOOLEAN
    /\ \E kind \in [Nodes -> 0..4] :
         /\ netOut = KindNetOut(kind)
         /\ netIn = Reverse(KindNetOut(kind))
         /\ cellOut = KindCellOut(kind)
    /\ \E cuts \in SUBSET (1..(NumNodes - 1)) : ts = Schedule(cuts)
    /\ nfArg = [v \in Nodes |-> <<(v * v) % 7>>]
    /\ \E seed \in 0..1 : pre = [r \in 1..2 |-> PreStore(r, seed, netOut, netIn, cellOut)]
    /\ store = pre
    /\ saved = pre
    /\ lvl = 0
    /\ trace = <<>>
    /\ reads = {}
    /\ lastw = [v \in Nodes |-> -1]
    /\ err = ""
    /\ ret = <<>>
    /\ wAtt = [kind |-> "dense", i |-> 0, j |-> 0]
    /\ nLayers = 0
    /\ xrun = <<>>
    /\ NoLut

\* assert len(ts['topo']) % 2 == 0
AssertEvenLevels_Off(topo) == TRUE
AssertEvenLevels(topo) == Len(topo) % 2 = 0

\* the stage of level i in the loop of forward
StageKind_Swapped(i) == IF i % 2 = 1 THEN "cell" ELSE "net"
StageKind(i) == IF i % 2 = 1 THEN "net" ELSE "cell"

\* range(1, len(ts['topo'])) starts here
FirstLevel_Zero == 1 - 1
FirstLevel_Two == 1 + 1
FirstLevel == 1

\* the predictions the stage numbered i reads over the edges E (run 1)
StageReads(i, E, gt) ==
    {[stage |-> i, src |-> e[1], field |-> LastNfField(gt),
      val |-> store[1].n[LastNfField(gt)][e[1]], w |-> lastw[e[1]]] : e \in E}

\* an exception raised inside the with block: the scope's frames, with the
\* writes made so far, stay on the graph
Raise(e) ==
    /\ pc' = "raised"
    /\ err' = e
    /\ store' = store

SP_Assert ==
    /\ comp = "SignalProp"
    /\ pc = "sp_call"
    /\ IF AssertEvenLevels(ts.topo)
       THEN pc' = "sp_scope" /\ err' = err
       ELSE pc' = "raised" /\ err' = "AssertionError"
    /\ UNCHANGED <<inputs, store, saved, lvl, trace, reads, lastw, ret, xrun, lutvars>>

\* g.ndata['nf'] = nf; g.ndata['new_nf'] = zeros; apply_nodes(node_skip_level_o, pi)
SP_InitStore(st) ==
    [st EXCEPT !.n = node_skip_level_o(
        SetCol(SetCol(st.n, "nf", nfArg), "new_nf", [v \in Nodes |-> Zeros(1)]),
        ts.pi_nodes)]

SP_Init ==
    /\ comp = "SignalProp"
    /\ pc = "sp_scope"
    /\ saved' = store
    /\ store' = [r \in Runs |-> SP_InitStore(store[r])]
    /\ lastw' = [v \in Nodes |-> IF v \in ts.pi_nodes THEN 0 ELSE -1]
    /\ trace' = <<[stage |-> "skip", level |-> 0]>>
    /\ lvl' = FirstLevel
    /\ pc' = IF groundtruth THEN "sp_tf_net" ELSE "sp_loop"
    /\ UNCHANGED <<inputs, reads, err, ret, xrun, lutvars>>

\* one call of prop_net(nodes, groundtruth), as stage number i
RunNet(i, nodes, next) ==
    /\ store' = [r \in Runs |-> prop_net(store[r], nodes, groundtruth)]
    /\ reads' = reads \cup StageReads(i, InEdges(netOut, nodes), groundtruth)
    /\ lastw' = [v \in Nodes |-> IF v \in nodes THEN i ELSE lastw[v]]
    /\ trace' = Append(trace, [stage |-> "net", level |-> i])
    /\ pc' = next
    /\ UNCHANGED <<err>>

\* one call of prop_cell(nodes, groundtruth), as stage number i
RunCell(i, nodes, next) ==
    IF ~prop_cell_ok(nodes)
    THEN /\ Raise("RuntimeError")
         /\ UNCHANGED <<reads, lastw, trace>>
    ELSE IF \E r \in Runs : ~prop_cell_has_nfc(store[r], nodes)
    THEN /\ pc' = "raised"
         /\ err' = "KeyError"
         /\ store' = [r \in Runs |-> prop_cell_apply_edges(store[r], nodes, groundtruth)]
         /\ UNCHANGED <<reads, lastw, trace>>
    ELSE /\ store' = [r \in Runs |-> prop_cell(store[r], nodes, groundtruth)]
         /\ reads' = reads \cup StageReads(i, InEdges(cellOut, nodes), groundtruth)
         /\ lastw' = [v \in Nodes |-> IF v \in nodes THEN i ELSE lastw[v]]
         /\ trace' = Append(trace, [stage |-> "cell", level |-> i])
         /\ pc' = next
         /\ UNCHANGED <<err>>

SP_TF_Net ==
    /\ comp = "SignalProp"
    /\ pc = "sp_tf_net"
    /\ RunNet(1, ts.input_nodes, "sp_tf_cell")
    /\ UNCHANGED <<inputs, saved, lvl, ret, xrun, lutvars>>

SP_TF_Cell ==
    /\ comp = "SignalProp"
    /\ pc = "sp_tf_cell"
    /\ RunCell(2, ts.output_nodes_nonpi, "sp_return")
    /\ UNCHANGED <<inputs, saved, lvl, ret, xrun, lutvars>>

SP_LoopNet ==
    /\ comp = "SignalProp"
    /\ pc = "sp_loop"
    /\ lvl < Len(ts.topo)
    /\ StageKind(lvl) = "net"
    /\ RunNet(lvl, Level(lvl), "sp_loop")
    /\ lvl' = lvl + 1
    /\ UNCHANGED <<inputs, saved, ret, xrun, lutvars>>

SP_LoopCell ==
    /\ comp = "SignalProp"
    /\ pc = "sp_loop"
    /\ lvl < Len(ts.topo)
    /\ StageKind(lvl) = "cell"
    /\ RunCell(lvl, Level(lvl), "sp_loop")
    /\ lvl' = lvl + 1
    /\ UNCHANGED <<inputs, saved, ret, xrun, lutvars>>

SP_LoopEnd ==
    /\ comp = "SignalProp"
    /\ pc = "sp_loop"
    /\ lvl >= Len(ts.topo)
    /\ pc' = "sp_return"
    /\ UNCHANGED <<inputs, store, saved, lvl, trace, reads, lastw, err, ret, xrun, lutvars>>

\* return g.ndata['new_nf'], g.edges['cell_out'].data['efce']
SP_Return ==
    /\ comp = "SignalProp"
    /\ pc = "sp_return"
    /\ IF \A r \in Runs : "efce" \in DOMAIN store[r].co
       THEN /\ ret' = [r \in Runs |-> [nf |-> store[r].n["new_nf"],
                                       ce |-> store[r].co["efce"]]]
            /\ pc' = "done"
            /\ err' = err
            /\ store' = [r \in Runs |-> LocalScopeExit(saved[r], store[r])]
       ELSE /\ Raise("KeyError")
            /\ ret' = ret
    /\ UNCHANGED <<inputs, saved, lvl, trace, reads, lastw, xrun, lutvars>>

NextProp ==
    \/ SP_Assert
    \/ SP_Init
    \/ SP_TF_Net
    \/ SP_TF_Cell
    \/ SP_LoopNet
    \/ SP_LoopCell
    \/ SP_LoopEnd
    \/ SP_Return

Spec == InitProp /\ [][NextProp]_vars

(***************************************************************************)
(* Claims about SignalProp.forward, checked under Spec.                    *)
(***************************************************************************)
Finished == pc \in {"done", "raised"}

SkipEntry == [stage |-> "skip", level |-> 0]

\* C1: in autoregressive mode the stages run on levels 1, 2, ... in increasing
\* order, net on odd and cell on even levels, level 0 by no stage; when the loop
\* is over every level 1 .. len(topo)-1 has been processed exactly once; and when
\* the stage of level i is about to start, every node of every earlier level
\* j >= 1 carries the new_nf written by the stage of level j.
C1_LevelsInOrder ==
    (comp = "SignalProp" /\ ~groundtruth /\ trace # <<>>) =>
        /\ trace[1] = SkipEntry
        /\ Len(trace) <= Len(ts.topo)
        /\ \A k \in 2..Len(trace) :
              /\ trace[k].level = k - 1
              /\ trace[k].stage = (IF (k - 1) % 2 = 1 THEN "net" ELSE "cell")
        /\ pc \in {"sp_return", "done"} => Len(trace) = Len(ts.topo)
        /\ pc = "sp_loop" =>
              /\ lvl = Len(trace)
              /\ \A j \in 1..(lvl - 1) : \A v \in Level(j) : lastw[v] = j

C1_Witness ==
    /\ comp = "SignalProp" /\ ~groundtruth /\ pc = "done"
    /\ Len(ts.topo) = 4
    /\ trace = <<SkipEntry, [stage |-> "net", level |-> 1],
                 [stage |-> "cell", level |-> 2], [stage |-> "net", level |-> 3]>>

\* C2: with groundtruth=True every source prediction a stage reads is the node's
\* n_atslew, never new_nf; exactly one net stage over input_nodes and one cell
\* stage over output_nodes_nonpi run; and two runs that differ only in the
\* new_nf the graph held before the call return the same tensors.
C2_TeacherForcing ==
    (comp = "SignalProp" /\ groundtruth) =>
        /\ \A rd \in reads : /\ rd.field = "n_atslew"
                             /\ rd.val = pre[1].n["n_atslew"][rd.src]
        /\ pc = "done" =>
              /\ ret[1] = ret[2]
              /\ trace = <<SkipEntry, [stage |-> "net", level |-> 1],
                           [stage |-> "cell", level |-> 2]>>
              /\ \A v \in Nodes :
                    lastw[v] = IF v \in ts.output_nodes_nonpi THEN 2
                               ELSE IF v \in ts.input_nodes THEN 1
                               ELSE IF v \in ts.pi_nodes THEN 0 ELSE -1

C2_Witness ==
    /\ comp = "SignalProp" /\ groundtruth /\ pc = "done"
    /\ pre[1].n["new_nf"] # pre[2].n["new_nf"]
    /\ \E a, b \in reads : a.stage = 1 /\ b.stage = 2

\* C3: with a topo of odd length forward raises the assertion error, in either
\* mode, with the store untouched, no stage run, nothing read and nothing returned.
C3_OddLengthFails ==
    (comp = "SignalProp" /\ Len(ts.topo) % 2 = 1 /\ pc # "sp_call") =>
        /\ pc = "raised"
        /\ err = "AssertionError"
        /\ store = pre
        /\ trace = <<>>
        /\ reads = {}
        /\ ret = <<>>

C3_Witness ==
    /\ comp = "SignalProp" /\ pc = "raised" /\ err = "AssertionError"
    /\ groundtruth
    /\ Len(ts.topo) = 3

\* C4 (as claimed): a forward pass either returns both outputs or fails with the
\* schedule (assertion) error or a shape error, never anything else; for an
\* even-length schedule the failure is never the assertion.
C4_OutputsOrScheduleError ==
    (comp = "SignalProp" /\ ~groundtruth /\ Finished) =>
        \/ pc = "done" /\ DOMAIN ret[1].ce = cellOut
        \/ pc = "raised" /\ err = "AssertionError" /\ Len(ts.topo) % 2 = 1
        \/ pc = "raised" /\ err = "RuntimeError"

\* C5: in either mode the returned prediction of every primary-input node is its
\* n_atslew, written by node_skip_level_o and by no stage after it.
C5_PrimaryInputsKeepGroundTruth ==
    (comp = "SignalProp" /\ pc = "done") =>
        \A v \in ts.pi_nodes :
            /\ \A r \in Runs : ret[r].nf[v] = pre[r].n["n_atslew"][v]
            /\ lastw[v] = 0

C5_Witness ==
    /\ comp = "SignalProp" /\ pc = "done" /\ ~groundtruth
    /\ Cardinality(ts.pi_nodes) >= 1
    /\ Len(trace) = 4

\* every edge into a node of a level i >= 1 comes from a primary input or from a
\* level j with 1 <= j < i
LevelIndex(v) == CHOOSE i \in 0..(Len(ts.topo) - 1) : v \in Level(i)

EdgesFollowSchedule ==
    \A e \in netOut \cup cellOut :
        LevelIndex(e[2]) >= 1 =>
            \/ e[1] \in ts.pi_nodes
            \/ 1 <= LevelIndex(e[1]) /\ LevelIndex(e[1]) < LevelIndex(e[2])

\* C9: in autoregressive mode, on a schedule the edges follow, every new_nf a
\* stage reads from a source node was written before that stage (by the skip or
\* by an earlier stage), was not written again, and is the returned prediction.
C9_ReadsAreFinal ==
    (comp = "SignalProp" /\ ~groundtruth /\ pc = "done" /\ EdgesFollowSchedule) =>
        \A rd \in reads :
            /\ rd.field = "new_nf"
            /\ rd.w >= 0
            /\ rd.w < rd.stage
            /\ lastw[rd.src] = rd.w
            /\ rd.val = ret[1].nf[rd.src]

C9_Witness ==
    /\ comp = "SignalProp" /\ ~groundtruth /\ pc = "done" /\ EdgesFollowSchedule
    /\ \E a, b, c \in reads : /\ a.stage = 1 /\ a.w = 0
                              /\ b.stage = 2 /\ b.w = 1
                              /\ c.stage = 3 /\ c.w = 2

(***************************************************************************)
(* NetConv                                                                 *)
(***************************************************************************)
MLP_msg_i2o(v) == MLP(6, v, 3)
MLP_reduce_o(v) == MLP(7, v, 1)
MLP_msg_o2i(v) == MLP(8, v, 1)

\* edge_msg_i on a net_out edge e
NetConv_edge_msg_i(ndf, ef, e) ==
    MLP_msg_o2i(ndf["nf"][e[1]] \o ndf["nf"][e[2]] \o ef[e])

\* edge_msg_o on a net_in edge e
NetConv_edge_msg_o(ndf, ef, e) ==
    LET m == MLP_msg_i2o(ndf["nf"][e[1]] \o ndf["nf"][e[2]] \o ef[e])
        k == Sigmoid(m[1])
    IN  [efo1 |-> <<m[2] * k>>, efo2 |-> <<m[3] * k>>]

NetConv_node_reduce_o(ndf, v) ==
    MLP_reduce_o(ndf["nf"][v] \o ndf["nfo1"][v] \o ndf["nfo2"][v])

\* the nodes g.apply_nodes(self.node_reduce_o, ...) is given
NetConv_ReduceNodes_All == Nodes
NetConv_ReduceNodes == ts.output_nodes

InitNet ==
    /\ comp = "NetConv"
    /\ pc = "nc_call"
    /\ groundtruth = FALSE
    /\ \E kind \in [Nodes -> {0, 1, 3, 4}] :
         /\ netOut = KindNetOut(kind)
         /\ netIn = Reverse(KindNetOut(kind))
         /\ cellOut = {}
    /\ \E cuts \in SUBSET (1..(NumNodes - 1)) : ts = Schedule(cuts)
    /\ \E a \in 0..1 : nfArg = [v \in Nodes |-> <<(v * v + a) % 7>>]
    /\ pre = [r \in 1..1 |-> PreStore(r, 0, netOut, netIn, cellOut)]
    /\ store = pre
    /\ saved = pre
    /\ lvl = 0
    /\ trace = <<>>
    /\ reads = {}
    /\ lastw = [v \in Nodes |-> -1]
    /\ err = ""
    /\ ret = <<>>
    /\ wAtt = [kind |-> "dense", i |-> 0, j |-> 0]
    /\ nLayers = 0
    /\ xrun = <<>>
    /\ NoLut

\* with g.local_scope(): g.ndata['nf'] = nf
NC_SetNf ==
    /\ comp = "NetConv"
    /\ pc = "nc_call"
    /\ saved' = store
    /\ store' = [r \in Runs |-> [store[r] EXCEPT !.n = SetCol(@, "nf", nfArg)]]
    /\ pc' = "nc_net_out"
    /\ UNCHANGED <<inputs, lvl, trace, reads, lastw, err, ret, xrun, lutvars>>

\* g.update_all(self.edge_msg_i, fn.sum('efi', 'new_nf'), etype='net_out')
NC_UpdateNetOut ==
    /\ comp = "NetConv"
    /\ pc = "nc_net_out"
    /\ store' = [r \in Runs |->
         LET st == store[r]
             msg == [e \in netOut |-> NetConv_edge_msg_i(st.n, st.no["ef"], e)]
         IN  [st EXCEPT !.n = SetCol(@, "new_nf",
                 [v \in Nodes |-> ReduceSum(EdgeSeq(InEdges(netOut, {v})), msg, 1)])]]
    /\ trace' = Append(trace, "update_all net_out")
    /\ pc' = "nc_net_in"
    /\ UNCHANGED <<inputs, saved, lvl, reads, lastw, err, ret, xrun, lutvars>>

\* g.apply_edges(self.edge_msg_o, etype='net_in')
NC_ApplyEdgesNetIn ==
    /\ comp = "NetConv"
    /\ pc = "nc_net_in"
    /\ store' = [r \in Runs |->
         LET st == store[r]
             msg == [e \in netIn |-> NetConv_edge_msg_o(st.n, st.ni["ef"], e)]
         IN  [st EXCEPT !.ni = SetCol(SetCol(@, "efo1", [e \in netIn |-> msg[e].efo1]),
                                      "efo2", [e \in netIn |-> msg[e].efo2])]]
    /\ trace' = Append(trace, "apply_edges net_in")
    /\ pc' = "nc_sum"
    /\ UNCHANGED <<inputs, saved, lvl, reads, lastw, err, ret, xrun, lutvars>>

\* g.update_all(fn.copy_e('efo1', 'efo1'), fn.sum('efo1', 'nfo1'), etype='net_in')
NC_ReduceSum ==
    /\ comp = "NetConv"
    /\ pc = "nc_sum"
    /\ store' = [r \in Runs |->
         LET st == store[r]
         IN  [st EXCEPT !.n = SetCol(@, "nfo1",
                 [v \in Nodes |->
                     ReduceSum(EdgeSeq(InEdges(netIn, {v})), st.ni["efo1"], 1)])]]
    /\ trace' = Append(trace, "sum net_in")
    /\ pc' = "nc_max"
    /\ UNCHANGED <<inputs, saved, lvl, reads, lastw, err, ret, xrun, lutvars>>

\* g.update_all(fn.copy_e('efo2', 'efo2'), fn.max('efo2', 'nfo2'), etype='net_in')
NC_ReduceMax ==
    /\ comp = "NetConv"
    /\ pc = "nc_max"
    /\ store' = [r \in Runs |->
         LET st == store[r]
         IN  [st EXCEPT !.n = SetCol(@, "nfo2",
                 [v \in Nodes |->
                     ReduceMax(EdgeSeq(InEdges(netIn, {v})), st.ni["efo2"], 1)])]]
    /\ trace' = Append(trace, "max net_in")
    /\ pc' = "nc_apply"
    /\ UNCHANGED <<inputs, saved, lvl, reads, lastw, err, ret, xrun, lutvars>>

\* g.apply_nodes(self.node_reduce_o, ts['output_nodes'])
NC_ApplyNodes ==
    /\ comp = "NetConv"
    /\ pc = "nc_apply"
    /\ store' = [r \in Runs |->
         LET st == store[r]
         IN  [st EXCEPT !.n = SetRows(@, "new_nf", Nodes, NetConv_ReduceNodes,
                 [v \in NetConv_ReduceNodes |-> NetConv_node_reduce_o(st.n, v)], 1)]]
    /\ trace' = Append(trace, "apply_nodes")
    /\ pc' = "nc_return"
    /\ UNCHANGED <<inputs, saved, lvl, reads, lastw, err, ret, xrun, lutvars>>

\* return g.ndata['new_nf'], leaving the local scope
NC_Return ==
    /\ comp = "NetConv"
    /\ pc = "nc_return"
    /\ ret' = [r \in Runs |-> [nf |-> store[r].n["new_nf"]]]
    /\ store' = [r \in Runs |-> LocalScopeExit(saved[r], store[r])]
    /\ pc' = "done"
    /\ UNCHANGED <<inputs, saved, lvl, trace, reads, lastw, err, xrun, lutvars>>

NextNet ==
    \/ NC_SetNf
    \/ NC_UpdateNetOut
    \/ NC_ApplyEdgesNetIn
    \/ NC_ReduceSum
    \/ NC_ReduceMax
    \/ NC_ApplyNodes
    \/ NC_Return

SpecNet == InitNet /\ [][NextNet]_vars

\* the gated payloads of the net_in edge e, from the nf the call was given
GatedFromInput(e) ==
    LET m == MLP_msg_i2o(nfArg[e[1]] \o nfArg[e[2]] \o pre[1].ni["ef"][e])
    IN  [f1 |-> m[2] * Sigmoid(m[1]), f2 |-> m[3] * Sigmoid(m[1])]

RECURSIVE SetSum(_, _)
SetSum(S, f) ==
    IF S = {} THEN 0 ELSE LET a == CHOOSE a \in S : TRUE IN f[a] + SetSum(S \ {a}, f)

SetMax0(S, f) ==
    IF S = {} THEN 0 ELSE LET a == CHOOSE a \in S : \A b \in S : f[a] >= f[b] IN f[a]

\* C10: the tensor NetConv.forward returns holds, at a node of output_nodes, the
\* reduce MLP of [input nf, sum of gated f1, max of gated f2 over the incoming
\* net_in edges], and at every other node the sum of the MLP_msg_o2i messages
\* over its incoming net_out edges (zero when there is none), every message
\* being computed from the nf the call was given.
C10_NetConvOutput ==
    (comp = "NetConv" /\ pc = "done") =>
        \A v \in Nodes :
            LET inI == InEdges(netIn, {v})
                inO == InEdges(netOut, {v})
                g == [e \in inI |-> GatedFromInput(e)]
            IN  ret[1].nf[v] =
                  IF v \in ts.output_nodes
                  THEN MLP_reduce_o(nfArg[v]
                          \o <<SetSum(inI, [e \in inI |-> g[e].f1])>>
                          \o <<SetMax0(inI, [e \in inI |-> g[e].f2])>>)
                  ELSE <<SetSum(inO, [e \in inO |->
                            MLP_msg_o2i(nfArg[e[1]] \o nfArg[e[2]]
                                        \o pre[1].no["ef"][e])[1]])>>

\* a drive with two sinks that itself has an incoming net_out edge, and a node
\* outside output_nodes without any incoming net_out edge
C10_Witness ==
    /\ comp = "NetConv" /\ pc = "done"
    /\ \E v \in ts.output_nodes : /\ Cardinality(InEdges(netIn, {v})) = 2
                                  /\ InEdges(netOut, {v}) # {}
    /\ \E v \in Nodes \ ts.output_nodes : /\ InEdges(netOut, {v}) = {}
                                          /\ ret[1].nf[v] = Zeros(1)
    /\ \E v \in Nodes \ ts.output_nodes : InEdges(netOut, {v}) # {}

(***************************************************************************)
(* AllConv and DeepGCNII.  The graph is homogeneous: its one edge type is  *)
(* kept in netOut, with the edge feature ef in the frame `no`.             *)
(***************************************************************************)
\* edge_udf of the AllConv built with the weights `seed`
AllConv_edge_udf(seed, ndf, ef, e) ==
    LET m == MLP(seed, ndf["nf"][e[1]] \o ndf["nf"][e[2]] \o ef[e], 3)
        k == Sigmoid(m[1])
    IN  [ef1 |-> <<m[2] * k>>, ef2 |-> <<m[3] * k>>]

\* the store inside the local scope of AllConv.forward, before the reduce MLP
AllConv_scope(seed, st, nf) ==
    LET n0 == SetCol(st.n, "nf", nf)
        msg == [e \in netOut |-> AllConv_edge_udf(seed, n0, st.no["ef"], e)]
        m1 == [e \in netOut |-> msg[e].ef1]
        m2 == [e \in netOut |-> msg[e].ef2]
        eo == SetCol(SetCol(st.no, "ef1", m1), "ef2", m2)
        n1 == SetCol(n0, "nf1",
                  [v \in Nodes |-> ReduceSum(EdgeSeq(InEdges(netOut, {v})), m1, 1)])
        n2 == SetCol(n1, "nf2",
                  [v \in Nodes |-> ReduceMax(EdgeSeq(InEdges(netOut, {v})), m2, 1)])
    IN  [st EXCEPT !.n = n2, !.no = eo]

\* AllConv.forward: the tensor returned and the store left behind
AllConv_forward(seed, st, nf) ==
    LET sc == AllConv_scope(seed, st, nf)
    IN  [out |-> [v \in Nodes |->
                    MLP(seed + 1, sc.n["nf"][v] \o sc.n["nf1"][v] \o sc.n["nf2"][v], 1)],
         store |-> LocalScopeExit(st, sc)]

\* len(self.layers), from range(n_layers - 2)
NumMid_OneMore(n) == IF n - 1 > 0 THEN n - 1 ELSE 0
NumMid(n) == IF n - 2 > 0 THEN n - 2 ELSE 0

\* the weights of layer0, of self.layers[k] and of layern
LayerSeed(name, k) ==
    IF name = "layer0" THEN 10 ELSE IF name = "layern" THEN 12 ELSE 14 + 2 * k

InitDeep ==
    /\ comp = "DeepGCNII"
    /\ pc = "dg_call"
    /\ groundtruth = FALSE
    /\ \E kind \in [Nodes -> 0..4] :
         /\ netOut = KindNetOut(kind) \cup KindCellOut(kind)
         /\ netIn = {}
         /\ cellOut = {}
    /\ ts = Schedule({})
    /\ nfArg = <<>>
    /\ \E seed \in 0..1 : pre = [r \in 1..1 |-> PreStore(r, seed, netOut, netIn, cellOut)]
    /\ store = pre
    /\ saved = pre
    /\ lvl = 0
    /\ trace = <<>>
    /\ reads = {}
    /\ lastw = [v \in Nodes |-> -1]
    /\ err = ""
    /\ ret = <<>>
    /\ wAtt = [kind |-> "dense", i |-> 0, j |-> 0]
    /\ nLayers \in 2..MaxLayers
    /\ xrun = <<>>
    /\ NoLut

\* one layer call: what it was given, what g.ndata['nf'] was, what it returned
LayerEntry(name, k, arg, out, xout) ==
    [layer |-> name, idx |-> k, arg |-> arg, gnf |-> store[1].n["nf"],
     y |-> out, xout |-> xout]

\* x = self.layer0(g, g.ndata['nf'])
DG_Layer0 ==
    /\ comp = "DeepGCNII"
    /\ pc = "dg_call"
    /\ LET arg == store[1].n["nf"]
           c == AllConv_forward(LayerSeed("layer0", 0), store[1], arg)
       IN  /\ xrun' = c.out
           /\ store' = [r \in Runs |-> c.store]
           /\ trace' = Append(trace, LayerEntry("layer0", 0, arg, c.out, c.out))
    /\ lvl' = 0
    /\ pc' = "dg_loop"
    /\ UNCHANGED <<inputs, saved, reads, lastw, err, ret, lutvars>>

\* x = layer(g, torch.cat([x, g.ndata['nf']], dim=1)) + x
DG_ResidualSum(y, xv) == [v \in Nodes |-> VecAdd(y[v], xv[v])]

DG_Mid ==
    /\ comp = "DeepGCNII"
    /\ pc = "dg_loop"
    /\ lvl < NumMid(nLayers)
    /\ LET arg == [v \in Nodes |-> xrun[v] \o store[1].n["nf"][v]]
           c == AllConv_forward(LayerSeed("mid", lvl), store[1], arg)
           xn == DG_ResidualSum(c.out, xrun)
       IN  /\ xrun' = xn
           /\ store' = [r \in Runs |-> c.store]
           /\ trace' = Append(trace, LayerEntry("mid", lvl, arg, c.out, xn))
    /\ lvl' = lvl + 1
    /\ UNCHANGED <<inputs, pc, saved, reads, lastw, err, ret, lutvars>>

\* x = self.layern(g, x); return x
DG_LayerN ==
    /\ comp = "DeepGCNII"
    /\ pc = "dg_loop"
    /\ lvl >= NumMid(nLayers)
    /\ LET c == AllConv_forward(LayerSeed("layern", 0), store[1], xrun)
       IN  /\ xrun' = c.out
           /\ ret' = [r \in Runs |-> [nf |-> c.out]]
           /\ store' = [r \in Runs |-> c.store]
           /\ trace' = Append(trace, LayerEntry("layern", 0, xrun, c.out, c.out))
    /\ pc' = "done"
    /\ UNCHANGED <<inputs, saved, lvl, reads, lastw, err, lutvars>>

NextDeep ==
    \/ DG_Layer0
    \/ DG_Mid
    \/ DG_LayerN

SpecDeep == InitDeep /\ [][NextDeep]_vars

\* C7: one forward call of a DeepGCNII with n_layers = N >= 2 applies layer0 to
\* g.ndata['nf'], then the N-2 layers of self.layers in list order, each on
\* cat(x, g.ndata['nf']) with its output added to x, then layern on x, and
\* returns layern's output; with N = 2 layern is applied to layer0's output.
C7_LayerStack ==
    (comp = "DeepGCNII" /\ pc = "done") =>
        LET n == Len(trace) IN
        /\ n = nLayers
        /\ trace[1].layer = "layer0"
        /\ trace[1].arg = pre[1].n["nf"]
        /\ trace[1].xout = trace[1].y
        /\ \A k \in 2..(n - 1) :
              /\ trace[k].layer = "mid"
              /\ trace[k].idx = k - 2
              /\ trace[k].arg = [v \in Nodes |-> trace[k - 1].xout[v] \o pre[1].n["nf"][v]]
              /\ trace[k].xout = [v \in Nodes |->
                                     <<trace[k].y[v][1] + trace[k - 1].xout[v][1]>>]
        /\ trace[n].layer = "layern"
        /\ trace[n].arg = trace[n - 1].xout
        /\ ret[1].nf = trace[n].y
        /\ nLayers = 2 => trace[2].arg = trace[1].y

C7_Witness ==
    /\ comp = "DeepGCNII" /\ pc = "done"
    /\ nLayers = 4
    /\ Len(trace) = 4
    /\ trace[2].layer = "mid" /\ trace[3].layer = "mid"
    /\ trace[3].xout # trace[3].y
    /\ netOut # {}

(***************************************************************************)
(* SignalProp.edge_msg_cell, step by step, on the batch of all cell_out    *)
(* edges of a graph.                                                       *)
(***************************************************************************)
Batch == EdgeSeq(cellOut)

AttentionWeights ==
    [kind : {"dense"}, i : 0..1, j : {0}]
        \cup [kind : {"bias"}, i : 0..(in_cell_lut_sz - 1), j : 0..(in_cell_lut_sz - 1)]

InitLut ==
    /\ comp = "edge_msg_cell"
    /\ pc = "lut_call"
    /\ groundtruth \in BOOLEAN
    /\ \E kind \in [Nodes -> {0, 2}] :
         /\ netOut = {}
         /\ netIn = {}
         /\ cellOut = KindCellOut(kind)
    /\ cellOut # {}
    /\ ts = Schedule({})
    /\ nfArg = <<>>
    /\ \E seed \in 0..1 : pre = [r \in 1..1 |-> PreStore(r, seed, netOut, netIn, cellOut)]
    /\ store = pre
    /\ saved = pre
    /\ lvl = 0
    /\ trace = <<>>
    /\ reads = {}
    /\ lastw = [v \in Nodes |-> -1]
    /\ err = ""
    /\ ret = <<>>
    /\ wAtt \in AttentionWeights
    /\ nLayers = 0
    /\ xrun = <<>>
    /\ NoLut

\* q = self.MLP_lut_query(cat([last_nf, src nf, dst nf])).reshape(-1, 2)
LUT_Query ==
    /\ comp = "edge_msg_cell"
    /\ pc = "lut_call"
    /\ lutQ' = LutQuery(Batch, store[1].n, groundtruth)
    /\ pc' = "lut_attention"
    /\ UNCHANGED <<inputs, store, saved, lvl, trace, reads, lastw, err, ret, xrun,
                   lutA, lutR>>

\* a = self.MLP_lut_attention(cat([q, axis], dim=1))
LUT_Attention ==
    /\ comp = "edge_msg_cell"
    /\ pc = "lut_attention"
    /\ lutA' = LutAttention(lutQ, LutAxis(Batch, store[1].co["ef"]))
    /\ pc' = "lut_lookup"
    /\ UNCHANGED <<inputs, store, saved, lvl, trace, reads, lastw, err, ret, xrun,
                   lutQ, lutR>>

\* the outer product of ax and ay, and r = matmul(tables, a)
LUT_Lookup ==
    /\ comp = "edge_msg_cell"
    /\ pc = "lut_lookup"
    /\ lutR' = LutLookup(Batch, store[1].co["ef"], LutOuter(lutA))
    /\ pc' = "lut_msg"
    /\ UNCHANGED <<inputs, store, saved, lvl, trace, reads, lastw, err, ret, xrun,
                   lutQ, lutA>>

\* r.reshape(len(edges), -1), MLP_cellarc_msg and the split into efc1, efc2, efce
LUT_Msg ==
    /\ comp = "edge_msg_cell"
    /\ pc = "lut_msg"
    /\ ret' = [r \in Runs |->
                 [k \in 1..Len(Batch) |->
                     CellArcMsg(Batch, store[r].n, groundtruth, lutR, k)]]
    /\ pc' = "done"
    /\ UNCHANGED <<inputs, store, saved, lvl, trace, reads, lastw, err, xrun, lutvars>>

NextLut ==
    \/ LUT_Query
    \/ LUT_Attention
    \/ LUT_Lookup
    \/ LUT_Msg

SpecLut == InitLut /\ [][NextLut]_vars

\* entry (i, j) of table t in the ef of edge number k of the batch (all 0-based
\* but k): the value block starts after the axis block
TableEntry(k, t, i, j) ==
    store[1].co["ef"][Batch[k]][in_cell_num_luts * (1 + 2 * in_cell_lut_sz)
                                + t * in_cell_lut_sz * in_cell_lut_sz
                                + i * in_cell_lut_sz + j + 1]

\* the attention of table t, duplicate d, of edge number k: (ax, ay)
AttentionRow(k, t, d) ==
    LET row == ((k - 1) * in_cell_num_luts + t) * lut_dup + d
        base == row * 2 * in_cell_lut_sz
    IN  [ax |-> SubSeq(lutA, base + 1, base + in_cell_lut_sz),
         ay |-> SubSeq(lutA, base + in_cell_lut_sz + 1, base + 2 * in_cell_lut_sz),
         q |-> SubSeq(lutQ, 2 * row + 1, 2 * row + 2)]

LookupResult(k, t, d) ==
    lutR[(k - 1) * in_cell_num_luts * lut_dup + t * lut_dup + d + 1]

\* C8: each edge yields in_cell_num_luts * lut_dup lookup results; the result of
\* table t, duplicate d is the sum over (i, j) of ax[i] * ay[j] * table t[i][j],
\* with (ax, ay) the attention computed from query (t, d) and the axis metadata of
\* the same table t; when ax is one-hot at i and ay one-hot at j, it is exactly
\* entry i * in_cell_lut_sz + j of table t's value block.
C8_LutLookup ==
    (comp = "edge_msg_cell" /\ pc \in {"lut_msg", "done"}) =>
        /\ Len(lutR) = Len(Batch) * in_cell_num_luts * lut_dup
        /\ \A k \in 1..Len(Batch) : \A t \in 0..(in_cell_num_luts - 1) :
           \A d \in 0..(lut_dup - 1) :
              LET S == in_cell_lut_sz
                  W == 1 + 2 * S
                  at == AttentionRow(k, t, d)
                  res == LookupResult(k, t, d)
              IN  /\ res = SumSeq([i \in 1..S |-> SumSeq([j \in 1..S |->
                              at.ax[i] * at.ay[j] * TableEntry(k, t, i - 1, j - 1)])])
                  /\ at.ax \o at.ay = MLP_lut_attention(at.q \o
                        SubSeq(store[1].co["ef"][Batch[k]], t * W + 1, (t + 1) * W))
                  /\ \A i, j \in 0..(S - 1) :
                        (at.ax = OneHot(i, S) /\ at.ay = OneHot(j, S))
                            => res = TableEntry(k, t, i, j)

\* a one-hot attention off the diagonal, on a batch of two edges whose tables are
\* not symmetric
C8_Witness ==
    /\ comp = "edge_msg_cell" /\ pc = "done"
    /\ wAtt.kind = "bias" /\ wAtt.i # wAtt.j
    /\ Len(Batch) >= 2
    /\ AttentionRow(2, 1, 3).ax = OneHot(wAtt.i, in_cell_lut_sz)
    /\ LookupResult(2, 1, 3) = TableEntry(2, 1, wAtt.i, wAtt.j)
    /\ TableEntry(2, 1, wAtt.i, wAtt.j) # TableEntry(2, 1, wAtt.j, wAtt.i)
    /\ TableEntry(2, 1, wAtt.i, wAtt.j) # TableEntry(2, 0, wAtt.i, wAtt.j)
    /\ TableEntry(2, 1, wAtt.i, wAtt.j) # TableEntry(1, 1, wAtt.i, wAtt.j)

(***************************************************************************)
(* The three forward calls that open a local scope, side by side.          *)
(***************************************************************************)
InitAll ==
    \/ InitProp
    \/ InitNet
    \/ InitDeep

NextAll ==
    \/ NextProp
    \/ NextNet
    \/ NextDeep

SpecAll == InitAll /\ [][NextAll]_vars

\* C6 (as claimed): once NetConv.forward, SignalProp.forward or AllConv.forward has returned
\* or raised, the graph's node and edge feature store is the store before the
\* call; in DeepGCNII.forward the store is the original one between any two
\* layers, and every layer finds the original g.ndata['nf'].
C6_WritesAreTransient ==
    /\ Finished => store = pre
    /\ comp = "DeepGCNII" =>
          /\ store = pre
          /\ \A k \in 1..Len(trace) : trace[k].gnf = pre[1].n["nf"]

====
